---- MODULE Spec2Model ----
(***************************************************************************)
(* Model of the protocol bridge of vscode-firefox-debug:                   *)
(*   - DebugConnection: the actor registry and the inbound message handler *)
(*   - ThreadAdapter: object grip lifetimes, stack frames, evaluation,     *)
(*     resume cleanup and detach                                           *)
(* Two specifications share the module: SpecConnection drives the          *)
(* DebugConnection, Spec drives one ThreadAdapter.                         *)
(***************************************************************************)
EXTENDS Integers, Sequences, FiniteSets, TLC

(* ------------------------------ bounds -------------------------------- *)
\* number of distinct remote actor names seen by the connection
NumActorNames == 2
\* number of proxy instances that may be built for one actor name
MaxInstances == 2
\* number of inbound messages the transport delivers
MaxMessages == 2

ActorNames == 1..NumActorNames
\* an ActorProxy: its remote name and which instance for that name it is
Proxies == ActorNames \X (1..MaxInstances)
ProxyName(p) == p[1]

(* --------------------------- JavaScript Map ---------------------------- *)
\* a Map is the set of its <<key, value>> entries
MapHas(m, k) == \E e \in m : e[1] = k
MapGet(m, k) == (CHOOSE e \in m : e[1] = k)[2]
MapDelete(m, k) == {e \in m : e[1] # k}
MapSet(m, k, v) == MapDelete(m, k) \cup {<<k, v>>}
MapKeys(m) == {e[1] : e \in m}

SeqToSet(s) == {s[i] : i \in 1..Len(s)}


(* ------------------------- ThreadAdapter bounds ------------------------ *)
\* number of distinct remote object actor names
NumGripNames == 2
\* number of ObjectGripAdapter instances the thread creates
MaxAdapters == 2
\* length of the remote call stack
MaxFrames == 1
\* number of tasks waiting in the thread coordinator
MaxQueue == 1
\* number of pause episodes
MaxPauses == 1
\* number of variables one provider returns
MaxVariables == 1

\* number of ThreadAdapters whose init() runs against the one pause coordinator
NumThreads == 2

GripNames == 1..NumGripNames
ThreadIds == 1..NumThreads
NoGrip == 0
NoAdapter == 0
NoReason == "none"
NoTask == [kind |-> "none"]
\* the latest step settled no coordinator task and no cleanup
NoDone == [op |-> "none", status |-> "none", bestEffortFailed |-> FALSE]
\* remote source actors: the remote marks source 1 as black-boxed, and the
\* thread has a SourceAdapter for source 1 only
SourceActorNames == {1, 2}
KnownSources == <<1>>
IsBlackBoxed(source) == source = 1

\* sequences of length 0..n over S
RECURSIVE SeqsUpTo(_, _)
SeqsUpTo(S, n) ==
    IF n = 0 THEN {<<>>}
    ELSE LET shorter == SeqsUpTo(S, n - 1)
         IN shorter \cup {Append(q, x) : q \in {r \in shorter : Len(r) = n - 1}, x \in S}

\* a remote stack frame: where.source and the object grip of its scope
RemoteFrame(source, grip) == [source |-> source, grip |-> grip]
\* the stacks the remote reports: the top frame is in any source, the frames
\* below it in source 2; the scope object of the frame at depth i is actor i
RemoteStacks ==
    {<<>>} \cup
    {[i \in 1..k |-> RemoteFrame(IF i = 1 THEN src ELSE 2,
                                  IF i \in GripNames THEN i ELSE NoGrip)] :
        k \in 1..MaxFrames, src \in SourceActorNames}

\* protocol grips (FirefoxDebugProtocol.Grip)
ObjectGrip(actor) == [js |-> "object", type |-> "object", class |-> "Object", actor |-> actor]
NumberGrip(n) == [js |-> "number", num |-> n]
BooleanGrip(b) == [js |-> "boolean", bool |-> b]
StringGrip(str) == [js |-> "string", str |-> str]
TypedGrip(type) == [js |-> "object", type |-> type]
LongStringGrip(initial) == [js |-> "object", type |-> "longString", initial |-> initial]
SymbolGrip(name) == [js |-> "object", type |-> "symbol", name |-> name]
Undefined == [js |-> "undefined"]

\* the grips the remote answers an evaluation or a property fetch with
EvalGrips == {NumberGrip(2), Undefined} \cup {ObjectGrip(n) : n \in GripNames}
VariableGrips == {NumberGrip(2)} \cup {ObjectGrip(n) : n \in GripNames}

VARIABLES
    actors,        \* DebugConnection.actors : Map<string, ActorProxy>
    arrived,       \* the `from` of every message the transport delivered, in order
    received,      \* per proxy: arrival numbers of the messages passed to receiveResponse
    errorLog,      \* arrival numbers of the messages logged as 'Unknown actor'
    removedNames,  \* names unregistered and not registered again since
    unregisteredOther, \* the latest call was unregister(p) while a proxy other than p
                   \* was registered under p's name
    threadState,   \* ThreadCoordinator: "running", "paused" or "resuming"
    detachState,   \* "attached", "detaching" (detach request in flight) or "detached"
    episode,       \* number of pauses so far
    remoteStack,   \* the call stack of the paused remote thread
    threadPausedReason,
    sources,       \* ThreadAdapter.sources (source actor names)
    frames,        \* ThreadAdapter.frames
    scopes,        \* ThreadAdapter.scopes
    adapters,      \* every ObjectGripAdapter ever constructed, by instance number
    objectGripAdaptersByActorName,
    pauseLifetimeObjects,
    queue,         \* ThreadCoordinator: tasks waiting for the paused thread
    running,       \* ThreadCoordinator: the task being executed
    resumeRequested,
    releaseRequests, \* every releaseMany request sent to the thread actor
    pausedEmitted,   \* 'paused' was emitted for the current pause
    lastDone,        \* the coordinator task or cleanup the latest step settled, and how
    calls,           \* <<actor, adapter returned>> of the getOrCreateObjectGripAdapter calls
                     \* whose actor no cleanup has released since
    initPc,          \* per thread: the await at which ThreadAdapter.init is suspended
    initReload,      \* per thread: the `reload` argument of init
    initLog,         \* per thread: the calls init made on its collaborators, in order
    initResult,      \* per thread: "pending", "resolved" or "rejected"
    interruptInFlight, \* ThreadPauseCoordinator: threads with a granted interrupt not yet answered
    built,           \* per actor name: how many proxy instances have been constructed
    gocLast,         \* the latest getOrCreate call: its name, what it returned, whether the factory ran
    gocRets,         \* per name: the proxies returned to callers whose factory registers,
                     \* since the name was last unregistered
    gocRuns,         \* per name: the runs of such factories since the name was last unregistered
    gocForeign,      \* per name: since the first such call (and the last unregister) another
                     \* proxy was registered under the name without getOrCreate
    fgInput,         \* the arguments of the next VariableAdapter.fromGrip call
    fgOutput         \* what the latest VariableAdapter.fromGrip call returned

connVars == <<actors, arrived, received, errorLog, removedNames, unregisteredOther>>

gripVars == <<adapters, objectGripAdaptersByActorName, pauseLifetimeObjects, calls>>

threadVars == <<threadState, detachState, episode, remoteStack, threadPausedReason, sources,
                frames, scopes, gripVars, queue, running, resumeRequested,
                releaseRequests, pausedEmitted, lastDone>>

initVars == <<initPc, initReload, initLog, initResult, interruptInFlight>>

\* what the steps of one component leave alone
gocVars == <<built, gocLast, gocRets, gocRuns, gocForeign>>
fgVars == <<fgInput, fgOutput>>
otherThanConnection == <<threadVars, initVars, gocVars, fgVars>>
otherThanThread == <<connVars, initVars, gocVars, fgVars>>
otherThanInit == <<connVars, threadVars, gocVars, fgVars>>
otherThanRegistry == <<arrived, received, errorLog, threadVars, initVars, fgVars>>
otherThanGrips == <<threadState, detachState, episode, remoteStack, threadPausedReason, sources,
                    frames, scopes, queue, running, resumeRequested, releaseRequests,
                    pausedEmitted, lastDone, connVars, initVars, gocVars>>

vars == <<connVars, threadVars, initVars, gocVars, fgVars>>

(* --------------------------- DebugConnection --------------------------- *)
InitConnection ==
    /\ actors = {}
    /\ arrived = <<>>
    /\ received = [p \in Proxies |-> <<>>]
    /\ errorLog = <<>>
    /\ removedNames = {}
    /\ unregisteredOther = FALSE

\* a registry that only forgets a name when the very same instance is registered
unregisterSameInstance(actor) ==
    /\ actors' = actors \ {<<ProxyName(actor), actor>>}
    /\ removedNames' = removedNames \cup {ProxyName(actor)}
    /\ unregisteredOther' = (/\ MapHas(actors, ProxyName(actor))
                             /\ MapGet(actors, ProxyName(actor)) # actor)
    /\ UNCHANGED <<arrived, received, errorLog>>

register(actor) ==
    /\ actors' = MapSet(actors, ProxyName(actor), actor)
    /\ removedNames' = removedNames \ {ProxyName(actor)}
    /\ unregisteredOther' = FALSE
    /\ UNCHANGED <<arrived, received, errorLog>>

unregister(actor) ==
    /\ actors' = MapDelete(actors, ProxyName(actor))
    /\ removedNames' = removedNames \cup {ProxyName(actor)}
    /\ unregisteredOther' = (/\ MapHas(actors, ProxyName(actor))
                             /\ MapGet(actors, ProxyName(actor)) # actor)
    /\ UNCHANGED <<arrived, received, errorLog>>

\* a handler that drops a message for an unknown actor without logging it
OnTransportMessageSilent(from) ==
    /\ Len(arrived) < MaxMessages
    /\ arrived' = Append(arrived, from)
    /\ IF MapHas(actors, from)
         THEN received' = [received EXCEPT ![MapGet(actors, from)] = Append(@, Len(arrived) + 1)]
         ELSE UNCHANGED received
    /\ unregisteredOther' = FALSE
    /\ UNCHANGED <<errorLog, actors, removedNames>>

\* the transport's 'message' listener installed by the constructor
OnTransportMessage(from) ==
    /\ Len(arrived) < MaxMessages
    /\ arrived' = Append(arrived, from)
    /\ IF MapHas(actors, from)
         THEN /\ received' = [received EXCEPT ![MapGet(actors, from)] = Append(@, Len(arrived) + 1)]
              /\ UNCHANGED errorLog
         ELSE /\ errorLog' = Append(errorLog, Len(arrived) + 1)
              /\ UNCHANGED received
    /\ unregisteredOther' = FALSE
    /\ UNCHANGED <<actors, removedNames>>

(* ---------------------- DebugConnection.getOrCreate -------------------- *)
NoProxy == <<0, 0>>
NoCall == [name |-> 0, ret |-> NoProxy, invoked |-> FALSE]

InitGetOrCreate ==
    /\ built = [n \in ActorNames |-> 0]
    /\ gocLast = NoCall
    /\ gocRets = [n \in ActorNames |-> {}]
    /\ gocRuns = [n \in ActorNames |-> 0]
    /\ gocForeign = [n \in ActorNames |-> FALSE]

\* the proxy the next constructor call for the name builds: a new object
NewProxy(actorName) == <<actorName, built[actorName] + 1>>

\* a proxy is constructed without getOrCreate, and its constructor registers it
RegisterDirectly(actorName) ==
    /\ built[actorName] < MaxInstances
    /\ built' = [built EXCEPT ![actorName] = @ + 1]
    /\ register(NewProxy(actorName))
    /\ gocForeign' = [gocForeign EXCEPT ![actorName] = @ \/ gocRets[actorName] # {}]
    /\ UNCHANGED <<gocLast, gocRets, gocRuns>>

\* a caller unregisters a proxy that was built before
UnregisterBuilt(actor) ==
    /\ actor[2] <= built[ProxyName(actor)]
    /\ unregister(actor)
    /\ gocRets' = [gocRets EXCEPT ![ProxyName(actor)] = {}]
    /\ gocRuns' = [gocRuns EXCEPT ![ProxyName(actor)] = 0]
    /\ gocForeign' = [gocForeign EXCEPT ![ProxyName(actor)] = FALSE]
    /\ UNCHANGED <<built, gocLast>>

\* the factory createActor(): it builds a proxy, and registers it or not
createActor(actorName, registers) ==
    /\ built[actorName] < MaxInstances
    /\ built' = [built EXCEPT ![actorName] = @ + 1]
    /\ IF registers
         THEN register(NewProxy(actorName))
         ELSE UNCHANGED connVars

\* what a getOrCreate call leaves behind for the callers
Returned(actorName, ret, invoked, registers) ==
    /\ gocLast' = [name |-> actorName, ret |-> ret, invoked |-> invoked]
    /\ IF registers
         THEN /\ gocRets' = [gocRets EXCEPT ![actorName] = @ \cup {ret}]
              /\ gocRuns' = [gocRuns EXCEPT ![actorName] = IF invoked THEN @ + 1 ELSE @]
         ELSE UNCHANGED <<gocRets, gocRuns>>
    /\ UNCHANGED gocForeign

\* a lookup that runs the factory whether or not the name is registered
getOrCreateAlwaysCreating(actorName, registers) ==
    /\ createActor(actorName, registers)
    /\ Returned(actorName, NewProxy(actorName), TRUE, registers)

getOrCreate(actorName, registers) ==
    /\ IF MapHas(actors, actorName)
         THEN /\ Returned(actorName, MapGet(actors, actorName), FALSE, registers)
              /\ UNCHANGED <<connVars, built>>
         ELSE /\ createActor(actorName, registers)
              /\ Returned(actorName, NewProxy(actorName), TRUE, registers)

(* ---------------------------- ThreadAdapter ---------------------------- *)
InitThread ==
    /\ threadState = "running"
    /\ detachState = "attached"
    /\ episode = 0
    /\ remoteStack = <<>>
    /\ threadPausedReason = NoReason
    /\ sources = KnownSources
    /\ frames = <<>>
    /\ scopes = <<>>
    /\ adapters = <<>>
    /\ objectGripAdaptersByActorName = {}
    /\ pauseLifetimeObjects = <<>>
    /\ queue = <<>>
    /\ running = NoTask
    /\ resumeRequested = FALSE
    /\ releaseRequests = <<>>
    /\ pausedEmitted = FALSE
    /\ lastDone = NoDone
    /\ calls = {}

\* the grip bookkeeping of the thread, threaded through the synchronous code
Heap ==
    [adapters |-> adapters, byName |-> objectGripAdaptersByActorName,
     pauseLifetime |-> pauseLifetimeObjects, calls |-> calls, ret |-> NoAdapter]

SetHeap(h) ==
    /\ adapters' = h.adapters
    /\ objectGripAdaptersByActorName' = h.byName
    /\ pauseLifetimeObjects' = h.pauseLifetime
    /\ calls' = h.calls

\* new ObjectGripAdapter(objectGrip, threadLifetime, this); askedOther records
\* that a call of the current pause episode asked for the adapter with the
\* other lifetime
NewObjectGripAdapter(actor, threadLifetime) ==
    [actor |-> actor, threadLifetime |-> threadLifetime, disposed |-> FALSE, askedOther |-> FALSE]

\* a creation that puts the new adapter in the release set but not in the index
CreateWithoutIndexing(h, actor, threadLifetime) ==
    LET id == Len(h.adapters) + 1
    IN [adapters |-> Append(h.adapters, NewObjectGripAdapter(actor, threadLifetime)),
        byName |-> h.byName,
        pauseLifetime |-> IF ~threadLifetime THEN Append(h.pauseLifetime, id) ELSE h.pauseLifetime,
        calls |-> h.calls \cup {<<actor, id>>},
        ret |-> id]

\* the branch taken when the index has no adapter for the actor name
CreateObjectGripAdapter(h, actor, threadLifetime) ==
    LET id == Len(h.adapters) + 1
    IN [adapters |-> Append(h.adapters, NewObjectGripAdapter(actor, threadLifetime)),
        byName |-> MapSet(h.byName, actor, id),
        pauseLifetime |-> IF ~threadLifetime THEN Append(h.pauseLifetime, id) ELSE h.pauseLifetime,
        calls |-> h.calls \cup {<<actor, id>>},
        ret |-> id]

\* the existing adapter is returned as it is
ReuseObjectGripAdapter(h, actor, threadLifetime) ==
    LET id == MapGet(h.byName, actor)
    IN [h EXCEPT !.adapters[id].askedOther = @ \/ (threadLifetime # h.adapters[id].threadLifetime),
                 !.calls = @ \cup {<<actor, id>>},
                 !.ret = id]

\* a lookup that never finds the existing adapter
getOrCreateAlwaysNew(h, actor, threadLifetime) ==
    CreateObjectGripAdapter(h, actor, threadLifetime)

\* a lookup that adds an existing adapter to the release set when asked for pause lifetime
getOrCreateDowngrading(h, actor, threadLifetime) ==
    IF ~MapHas(h.byName, actor)
      THEN CreateObjectGripAdapter(h, actor, threadLifetime)
      ELSE LET r == ReuseObjectGripAdapter(h, actor, threadLifetime)
           IN IF ~threadLifetime /\ r.ret \notin SeqToSet(r.pauseLifetime)
                THEN [r EXCEPT !.pauseLifetime = Append(@, r.ret)]
                ELSE r

getOrCreateObjectGripAdapter(h, actor, threadLifetime) ==
    IF ~MapHas(h.byName, actor)
      THEN CreateObjectGripAdapter(h, actor, threadLifetime)
      ELSE ReuseObjectGripAdapter(h, actor, threadLifetime)

\* new VariableAdapter(varname, value, objectGripAdapter)
VariableAdapter(varname, value, objectGripAdapter) ==
    [varname |-> varname, value |-> value, objectGripAdapter |-> objectGripAdapter]

\* a conversion that shows every grip it does not recognise the same way
fromGripHidingUnknownType(h, varname, grip, threadLifetime) ==
    IF grip.js = "boolean" THEN
        [h |-> h, var |-> VariableAdapter(varname, IF grip.bool THEN "true" ELSE "false", NoAdapter)]
    ELSE IF grip.js = "number" THEN
        [h |-> h, var |-> VariableAdapter(varname, ToString(grip.num), NoAdapter)]
    ELSE IF grip.js = "string" THEN
        [h |-> h, var |-> VariableAdapter(varname, "\"" \o grip.str \o "\"", NoAdapter)]
    ELSE IF grip.type \in {"null", "undefined", "Infinity", "-Infinity", "NaN", "-0"} THEN
        [h |-> h, var |-> VariableAdapter(varname, grip.type, NoAdapter)]
    ELSE IF grip.type = "longString" THEN
        [h |-> h, var |-> VariableAdapter(varname, grip.initial, NoAdapter)]
    ELSE IF grip.type = "symbol" THEN
        [h |-> h, var |-> VariableAdapter(varname, grip.name, NoAdapter)]
    ELSE IF grip.type = "object" THEN
        LET h2 == getOrCreateObjectGripAdapter(h, grip.actor, threadLifetime)
        IN [h |-> h2, var |-> VariableAdapter(varname, grip.class, h2.ret)]
    ELSE
        [h |-> h, var |-> VariableAdapter(varname, "unknown", NoAdapter)]

\* VariableAdapter.fromGrip: the variable and the grip bookkeeping after it
fromGrip(h, varname, grip, threadLifetime) ==
    IF grip.js = "boolean" THEN
        [h |-> h, var |-> VariableAdapter(varname, IF grip.bool THEN "true" ELSE "false", NoAdapter)]
    ELSE IF grip.js = "number" THEN
        [h |-> h, var |-> VariableAdapter(varname, ToString(grip.num), NoAdapter)]
    ELSE IF grip.js = "string" THEN
        [h |-> h, var |-> VariableAdapter(varname, "\"" \o grip.str \o "\"", NoAdapter)]
    ELSE IF grip.type \in {"null", "undefined", "Infinity", "-Infinity", "NaN", "-0"} THEN
        [h |-> h, var |-> VariableAdapter(varname, grip.type, NoAdapter)]
    ELSE IF grip.type = "longString" THEN
        [h |-> h, var |-> VariableAdapter(varname, grip.initial, NoAdapter)]
    ELSE IF grip.type = "symbol" THEN
        [h |-> h, var |-> VariableAdapter(varname, grip.name, NoAdapter)]
    ELSE IF grip.type = "object" THEN
        LET h2 == getOrCreateObjectGripAdapter(h, grip.actor, threadLifetime)
        IN [h |-> h2, var |-> VariableAdapter(varname, grip.class, h2.ret)]
    ELSE
        [h |-> h, var |-> VariableAdapter(varname, grip.type, NoAdapter)]

variableFromGrip(h, grip, threadLifetime) ==
    IF grip # Undefined
      THEN fromGrip(h, "", grip, threadLifetime)
      ELSE [h |-> h, var |-> VariableAdapter("", "undefined", NoAdapter)]

RECURSIVE VariablesFromGrips(_, _, _, _)
\* variablesProvider.getVariables(): one variable per grip the remote returns
VariablesFromGrips(acc, grips, i, threadLifetime) ==
    IF i > Len(grips) THEN acc
    ELSE LET r == fromGrip(acc.h, "v", grips[i], threadLifetime)
         IN VariablesFromGrips([h |-> r.h, vars |-> Append(acc.vars, r.var)],
                               grips, i + 1, threadLifetime)

RECURSIVE CreateFrameAdapters(_, _, _)
\* new FrameAdapter(frame, this) for every frame of the stack, top first
CreateFrameAdapters(acc, stack, i) ==
    IF i > Len(stack) THEN acc
    ELSE LET g == stack[i].grip
             h2 == IF g = NoGrip THEN [acc.h EXCEPT !.ret = NoAdapter]
                   ELSE getOrCreateObjectGripAdapter(acc.h, g, FALSE)
         IN CreateFrameAdapters(
                [h |-> h2, frames |-> Append(acc.frames, [depth |-> i, grip |-> h2.ret, episode |-> episode])],
                stack, i + 1)

\* the object grip adapters of a list of adapters, in order, duplicates kept
RECURSIVE GripAdaptersOf(_)
GripAdaptersOf(list) ==
    IF list = <<>> THEN <<>>
    ELSE (IF Head(list) = NoAdapter THEN <<>> ELSE <<Head(list)>>) \o GripAdaptersOf(Tail(list))

findSourceAdapterForActorName(actorName) == actorName \in SeqToSet(sources)

\* a handler that skips no source
shouldSkipNothing(source) == FALSE

shouldSkip(source) ==
    IF findSourceAdapterForActorName(source) THEN IsBlackBoxed(source) ELSE FALSE

NewTask(kind, caller, threadLifetime) ==
    [kind |-> kind, caller |-> caller, tl |-> threadLifetime]

\* coordinator.runOnPausedThread / coordinator.evaluate: the task waits for its turn
Started(task) ==
    [kind |-> task.kind, caller |-> task.caller, tl |-> task.tl,
     pc |-> "action", pending |-> <<>>, extendFailed |-> FALSE]

\* an idle coordinator of a paused thread starts the task at once
Enqueue(task, state) ==
    IF state = "paused" /\ running = NoTask /\ queue = <<>>
      THEN /\ running' = Started(task)
           /\ UNCHANGED queue
      ELSE /\ Len(queue) < MaxQueue
           /\ queue' = Append(queue, task)
           /\ UNCHANGED running

\* coordinator.onPaused callback: the thread paused; the handler fetches the frames
OnPaused(stack) ==
    /\ detachState = "attached"
    /\ threadState = "running"
    /\ episode < MaxPauses
    /\ episode' = episode + 1
    /\ threadState' = "paused"
    /\ remoteStack' = stack
    /\ threadPausedReason' = "breakpoint"
    /\ pausedEmitted' = FALSE
    /\ Enqueue(NewTask("frames", "handler", FALSE), "paused")
    /\ adapters' = [id \in 1..Len(adapters) |-> [adapters[id] EXCEPT !.askedOther = FALSE]]
    /\ UNCHANGED <<detachState, sources, frames, scopes, objectGripAdaptersByActorName,
                   pauseLifetimeObjects, calls, resumeRequested, releaseRequests>>
    /\ lastDone' = NoDone

\* the coordinator starts the next waiting task on the paused thread
StartTask ==
    /\ detachState # "detached"
    /\ threadState = "paused"
    /\ running = NoTask
    /\ queue # <<>>
    /\ running' = Started(Head(queue))
    /\ queue' = Tail(queue)
    /\ UNCHANGED <<threadState, detachState, episode, remoteStack, threadPausedReason, sources,
                   frames, scopes, gripVars, resumeRequested,
                   releaseRequests, pausedEmitted>>
    /\ lastDone' = NoDone

\* the task's promise settles; the continuation of the onPaused handler runs
Finish(task, status, failed, framesAfter) ==
    /\ running' = NoTask
    /\ lastDone' = [op |-> task.kind, status |-> status,
                    bestEffortFailed |-> failed]
    /\ IF task.caller = "handler" /\ status = "resolved" /\ framesAfter # <<>>
         THEN IF shouldSkip(remoteStack[framesAfter[1].depth].source)
                THEN resumeRequested' = TRUE /\ UNCHANGED pausedEmitted
                ELSE pausedEmitted' = TRUE /\ UNCHANGED resumeRequested
         ELSE UNCHANGED <<resumeRequested, pausedEmitted>>

\* the task goes on to await the extendLifetime replies, or settles when there are none
AwaitExtendLifetime(task, targets, framesAfter) ==
    IF targets = <<>>
      THEN Finish(task, "resolved", FALSE, framesAfter)
      ELSE /\ running' = [task EXCEPT !.pc = "post", !.pending = targets]
           /\ lastDone' = NoDone /\ UNCHANGED <<resumeRequested, pausedEmitted>>

\* ThreadAdapter.fetchStackFrames(0, 0) called by the host
fetchStackFrames ==
    /\ detachState = "attached"
    /\ threadState = "paused"
    /\ IF Len(frames) > 0
         THEN /\ lastDone' = NoDone
              /\ UNCHANGED <<queue, running>>
         ELSE /\ Enqueue(NewTask("frames", "host", FALSE), threadState)
              /\ lastDone' = NoDone
    /\ UNCHANGED <<threadState, detachState, episode, remoteStack, threadPausedReason, sources,
                   frames, scopes, gripVars, resumeRequested,
                   releaseRequests, pausedEmitted>>

\* the reply to actor.fetchStackFrames() inside fetchAllStackFrames
fetchAllStackFramesReply(ok) ==
    /\ running # NoTask /\ running.kind = "frames" /\ running.pc = "action"
    /\ IF ok
         THEN LET r == CreateFrameAdapters([h |-> Heap, frames |-> <<>>], remoteStack, 1)
                  frameAdapters == r.frames
                  newScopes == [i \in 1..Len(frameAdapters) |->
                                  [frame |-> i, episode |-> episode,
                                   completion |-> IF i = 1 THEN threadPausedReason ELSE NoReason]]
                  targets == GripAdaptersOf([i \in 1..Len(frameAdapters) |-> frameAdapters[i].grip])
              IN /\ Len(r.h.adapters) <= MaxAdapters
                 /\ SetHeap(r.h)
                 /\ frames' = frames \o frameAdapters
                 /\ scopes' = scopes \o newScopes
                 /\ AwaitExtendLifetime(running, targets, frames \o frameAdapters)
         ELSE /\ Finish(running, "rejected", FALSE, frames)
              /\ UNCHANGED <<frames, scopes, gripVars>>
    /\ UNCHANGED <<threadState, detachState, episode, remoteStack, threadPausedReason, sources,
                   queue, releaseRequests>>

\* the providers the host can name: a scope of a fetched frame, or an object
\* grip adapter that is not disposed
ScopeProvider == 0
VariablesProviders == {ScopeProvider} \cup (1..MaxAdapters)
ProviderExists(provider) ==
    IF provider = ScopeProvider THEN scopes # <<>>
    ELSE provider <= Len(adapters) /\ ~adapters[provider].disposed
isThreadLifetime(provider) ==
    IF provider = ScopeProvider THEN FALSE ELSE adapters[provider].threadLifetime

\* ThreadAdapter.fetchVariables(variablesProvider) called by the host. A call
\* made while the coordinator is busy waits without effect; the step is the one
\* at which the coordinator takes the call up.
fetchVariables(provider) ==
    /\ detachState = "attached"
    /\ threadState = "paused"
    /\ running = NoTask /\ queue = <<>>
    /\ ProviderExists(provider)
    /\ Enqueue(NewTask("variables", "host", isThreadLifetime(provider)), threadState)
    /\ UNCHANGED <<threadState, detachState, episode, remoteStack, threadPausedReason, sources,
                   frames, scopes, gripVars, resumeRequested,
                   releaseRequests, pausedEmitted>>
    /\ lastDone' = NoDone

\* the reply to variablesProvider.getVariables()
fetchVariablesReply(ok, grips) ==
    /\ running # NoTask /\ running.kind = "variables" /\ running.pc = "action"
    /\ IF ok
         THEN LET r == VariablesFromGrips([h |-> Heap, vars |-> <<>>], grips, 1, running.tl)
                  objectGripAdapters ==
                      GripAdaptersOf([i \in 1..Len(r.vars) |-> r.vars[i].objectGripAdapter])
              IN /\ Len(r.h.adapters) <= MaxAdapters
                 /\ SetHeap(r.h)
                 /\ AwaitExtendLifetime(running,
                        IF ~running.tl THEN objectGripAdapters ELSE <<>>, frames)
         ELSE /\ grips = <<>>
              /\ Finish(running, "rejected", FALSE, frames)
              /\ UNCHANGED gripVars
    /\ UNCHANGED <<threadState, detachState, episode, remoteStack, threadPausedReason, sources,
                   frames, scopes, queue, releaseRequests>>

\* ThreadAdapter.evaluate(expr, frameActorName) called by the host for a fetched
\* frame, at the step at which the coordinator takes the call up
evaluate ==
    /\ detachState = "attached"
    /\ threadState = "paused"
    /\ running = NoTask /\ queue = <<>>
    /\ frames # <<>>
    /\ Enqueue(NewTask("evaluate", "host", FALSE), threadState)
    /\ UNCHANGED <<threadState, detachState, episode, remoteStack, threadPausedReason, sources,
                   frames, scopes, gripVars, resumeRequested,
                   releaseRequests, pausedEmitted>>
    /\ lastDone' = NoDone

\* the reply to the evaluation in a frame
evaluateReply(ok, grip) ==
    /\ running # NoTask /\ running.kind = "evaluate" /\ running.pc = "action"
    /\ IF ok
         THEN LET r == variableFromGrip(Heap, grip, FALSE)
              IN /\ Len(r.h.adapters) <= MaxAdapters
                 /\ SetHeap(r.h)
                 /\ AwaitExtendLifetime(running, GripAdaptersOf(<<r.var.objectGripAdapter>>), frames)
         ELSE /\ grip = Undefined
              /\ Finish(running, "rejected", FALSE, frames)
              /\ UNCHANGED gripVars
    /\ UNCHANGED <<threadState, detachState, episode, remoteStack, threadPausedReason, sources,
                   frames, scopes, queue, releaseRequests>>

\* ThreadAdapter.consoleEvaluate(expr), or ThreadAdapter.evaluate(expr) without
\* a frame, and the console actor's reply to it: both convert the result with
\* variableFromGrip(grip, true)
consoleEvaluate(ok, grip) ==
    /\ detachState = "attached"
    /\ IF ok
         THEN LET r == variableFromGrip(Heap, grip, TRUE)
              IN /\ Len(r.h.adapters) <= MaxAdapters
                 /\ SetHeap(r.h)
                 /\ lastDone' = NoDone
         ELSE /\ grip = Undefined
              /\ lastDone' = NoDone
              /\ UNCHANGED gripVars
    /\ UNCHANGED <<threadState, detachState, episode, remoteStack, threadPausedReason, sources,
                   frames, scopes, queue, running, resumeRequested,
                   releaseRequests, pausedEmitted>>

\* an extendLifetime rejection that reaches the task: the evaluate postprocess has no catch
ExtendLifetimeRejects(kind, ok) == kind = "evaluate" /\ ~ok

\* the reply to the i-th outstanding extendLifetime request of the running task
extendLifetimeReply(i, ok) ==
    /\ running # NoTask /\ running.pc = "post"
    /\ i \in 1..Len(running.pending)
    /\ LET remaining == [j \in 1..(Len(running.pending) - 1) |->
                            IF j < i THEN running.pending[j] ELSE running.pending[j + 1]]
           failed == running.extendFailed \/ ~ok
       IN IF ExtendLifetimeRejects(running.kind, ok)
            THEN Finish(running, "rejected", failed, frames)
            ELSE IF remaining = <<>>
                   THEN Finish(running, "resolved", failed, frames)
                   ELSE /\ running' = [running EXCEPT !.pending = remaining,
                                                      !.extendFailed = failed]
                        /\ lastDone' = NoDone /\ UNCHANGED <<resumeRequested, pausedEmitted>>
    /\ UNCHANGED <<threadState, detachState, episode, remoteStack, threadPausedReason, sources,
                   frames, scopes, gripVars, queue, releaseRequests>>

\* ThreadAdapter.resume() called by the host
resume ==
    /\ detachState = "attached"
    /\ threadState = "paused"
    /\ ~resumeRequested
    /\ resumeRequested' = TRUE
    /\ UNCHANGED <<threadState, detachState, episode, remoteStack, threadPausedReason, sources,
                   frames, scopes, gripVars, queue, running,
                   releaseRequests, pausedEmitted>>
    /\ lastDone' = NoDone

\* disposePauseLifetimeAdapters, its synchronous part
objectGripActorsToRelease ==
    [i \in 1..Len(pauseLifetimeObjects) |-> adapters[pauseLifetimeObjects[i]].actor]

DisposedAdapters ==
    [i \in 1..Len(adapters) |->
        IF i \in SeqToSet(pauseLifetimeObjects)
          THEN [adapters[i] EXCEPT !.disposed = TRUE] ELSE adapters[i]]

\* a cleanup that leaves the disposed adapters in the index
IndexNotPruned == objectGripAdaptersByActorName

PrunedIndex ==
    {e \in objectGripAdaptersByActorName : e[1] \notin SeqToSet(objectGripActorsToRelease)}

\* a cleanup that keeps the cached frames
FramesKept == frames

ClearedFrames == <<>>

\* a release request that leaves out the first grip
ReleaseRequestWithoutFirst(names) ==
    [names |-> Tail(names), adaptersBefore |-> Len(adapters), episode |-> episode]

ReleaseRequest(names) ==
    [names |-> names, adaptersBefore |-> Len(adapters), episode |-> episode]

\* the coordinator moves the thread to Running and runs the cleanup callback
disposePauseLifetimeAdapters ==
    /\ detachState # "detached"
    /\ threadState = "paused"
    /\ resumeRequested
    /\ running = NoTask /\ queue = <<>>
    /\ resumeRequested' = FALSE
    /\ adapters' = DisposedAdapters
    /\ objectGripAdaptersByActorName' = PrunedIndex
    /\ pauseLifetimeObjects' = <<>>
    /\ calls' = {c \in calls : c[1] \notin SeqToSet(objectGripActorsToRelease)}
    /\ scopes' = <<>>
    /\ frames' = ClearedFrames
    /\ remoteStack' = <<>>
    /\ IF Len(objectGripActorsToRelease) > 0
         THEN /\ releaseRequests' = Append(releaseRequests, ReleaseRequest(objectGripActorsToRelease))
              /\ threadState' = "resuming"
              /\ lastDone' = NoDone
         ELSE /\ threadState' = "running"
              /\ lastDone' = [op |-> "cleanup", status |-> "resolved",
                              bestEffortFailed |-> FALSE]
              /\ UNCHANGED releaseRequests
    /\ UNCHANGED <<detachState, episode, threadPausedReason, sources, queue, running,
                   pausedEmitted>>

\* a cleanup that, once releaseMany is answered, also drops from the index the
\* grips created while the request was in flight
releaseManyReplySweeping(ok) ==
    /\ detachState # "detached"
    /\ threadState = "resuming"
    /\ threadState' = "running"
    /\ lastDone' = [op |-> "cleanup", status |-> "resolved",
                    bestEffortFailed |-> ~ok]
    /\ objectGripAdaptersByActorName' =
          {e \in objectGripAdaptersByActorName :
              e[2] <= releaseRequests[Len(releaseRequests)].adaptersBefore}
    /\ UNCHANGED <<detachState, episode, remoteStack, threadPausedReason, sources,
                   frames, scopes, adapters, pauseLifetimeObjects, calls, queue, running,
                   resumeRequested, releaseRequests, pausedEmitted>>

\* the reply to releaseMany: a rejection is caught and ignored
releaseManyReply(ok) ==
    /\ detachState # "detached"
    /\ threadState = "resuming"
    /\ threadState' = "running"
    /\ lastDone' = [op |-> "cleanup", status |-> "resolved",
                    bestEffortFailed |-> ~ok]
    /\ UNCHANGED <<detachState, episode, remoteStack, threadPausedReason, sources,
                   frames, scopes, gripVars, queue, running, resumeRequested,
                   releaseRequests, pausedEmitted>>

\* ThreadAdapter.detach(): the detach request goes to the thread actor, nothing else
\* a detach that also drops the thread's grip index
detachClearingIndex ==
    /\ detachState = "attached"
    /\ threadState \in {"running", "paused"}
    /\ running = NoTask /\ queue = <<>>
    /\ detachState' = "detaching"
    /\ objectGripAdaptersByActorName' = {}
    /\ UNCHANGED <<threadState, episode, remoteStack, threadPausedReason, sources,
                   frames, scopes, adapters, pauseLifetimeObjects, calls, queue, running,
                   resumeRequested, releaseRequests, pausedEmitted>>
    /\ lastDone' = NoDone

detach ==
    /\ detachState = "attached"
    /\ threadState \in {"running", "paused"}
    /\ running = NoTask /\ queue = <<>>
    /\ detachState' = "detaching"
    /\ UNCHANGED <<threadState, episode, remoteStack, threadPausedReason, sources,
                   frames, scopes, gripVars, queue, running, resumeRequested,
                   releaseRequests, pausedEmitted>>
    /\ lastDone' = NoDone

detachReply(ok) ==
    /\ detachState = "detaching"
    /\ detachState' = IF ok THEN "detached" ELSE "attached"
    /\ lastDone' = NoDone
    /\ UNCHANGED <<threadState, episode, remoteStack, threadPausedReason, sources,
                   frames, scopes, gripVars, queue, running, resumeRequested,
                   releaseRequests, pausedEmitted>>

(* ------------------------- ThreadAdapter.init -------------------------- *)
InitInit ==
    /\ initPc = [t \in ThreadIds |-> "idle"]
    /\ initReload = [t \in ThreadIds |-> FALSE]
    /\ initLog = [t \in ThreadIds |-> <<>>]
    /\ initResult = [t \in ThreadIds |-> "pending"]
    /\ interruptInFlight = {}

\* init runs on to its next await: the calls it makes, and where it is suspended
InitGoesOn(t, called, pc) ==
    /\ initLog' = [initLog EXCEPT ![t] = @ \o called]
    /\ initPc' = [initPc EXCEPT ![t] = pc]
    /\ UNCHANGED initResult

\* init settles: the calls it made on the way, and how its promise settles
InitSettles(t, called, result) ==
    /\ initLog' = [initLog EXCEPT ![t] = @ \o called]
    /\ initPc' = [initPc EXCEPT ![t] = "done"]
    /\ initResult' = [initResult EXCEPT ![t] = result]

\* ThreadAdapter.init(exceptionBreakpoints, reload) up to the first await
init(t, reload) ==
    /\ initPc[t] = "idle"
    /\ initReload' = [initReload EXCEPT ![t] = reload]
    /\ InitGoesOn(t, <<"setExceptionBreakpoints", "requestInterrupt">>, "requestInterrupt")
    /\ UNCHANGED interruptInFlight

\* pauseCoordinator.requestInterrupt settles: granted, the interrupt is in flight
\* and init sends attach
requestInterruptReply(t, ok) ==
    /\ initPc[t] = "requestInterrupt"
    /\ IF ok
         THEN /\ interruptInFlight' = interruptInFlight \cup {t}
              /\ InitGoesOn(t, <<"attach">>, "attach")
         ELSE /\ InitSettles(t, <<>>, "rejected")
              /\ UNCHANGED interruptInFlight
    /\ UNCHANGED initReload

\* an init whose catch block does not tell the pause coordinator
attachReplyWithoutNotifyFailed(t, ok) ==
    /\ initPc[t] = "attach"
    /\ IF ok
         THEN /\ interruptInFlight' = interruptInFlight \ {t}
              /\ InitGoesOn(t, <<"notifyInterrupted", "fetchSources">>, "fetchSources")
         ELSE /\ InitSettles(t, <<>>, "rejected")
              /\ UNCHANGED interruptInFlight
    /\ UNCHANGED initReload

\* actor.attach() settles: the try block notifies and goes on to fetchSources,
\* the catch block notifies the failure and rethrows
attachReply(t, ok) ==
    /\ initPc[t] = "attach"
    /\ interruptInFlight' = interruptInFlight \ {t}
    /\ IF ok
         THEN InitGoesOn(t, <<"notifyInterrupted", "fetchSources">>, "fetchSources")
         ELSE InitSettles(t, <<"notifyInterruptFailed">>, "rejected")
    /\ UNCHANGED initReload

\* actor.fetchSources() settles
fetchSourcesReply(t, ok) ==
    /\ initPc[t] = "fetchSources"
    /\ IF ok
         THEN InitGoesOn(t, <<"resume">>, "resume")
         ELSE InitSettles(t, <<>>, "rejected")
    /\ UNCHANGED <<initReload, interruptInFlight>>

\* coordinator.resume() settles
resumeReply(t, ok) ==
    /\ initPc[t] = "resume"
    /\ IF ok
         THEN IF initReload[t]
                THEN InitGoesOn(t, <<"consoleEvaluate">>, "reload")
                ELSE InitSettles(t, <<>>, "resolved")
         ELSE InitSettles(t, <<>>, "rejected")
    /\ UNCHANGED <<initReload, interruptInFlight>>

\* consoleEvaluate('location.reload(true)') settles
reloadReply(t, ok) ==
    /\ initPc[t] = "reload"
    /\ InitSettles(t, <<>>, IF ok THEN "resolved" ELSE "rejected")
    /\ UNCHANGED <<initReload, interruptInFlight>>

(* ----------------------- VariableAdapter.fromGrip ----------------------- *)
\* the grips of the protocol that are no object grips, and two of types the
\* adapter does not know
PrimitiveGrips ==
    {BooleanGrip(b) : b \in BOOLEAN} \cup {NumberGrip(n) : n \in {-1, 0, 2}}
        \cup {StringGrip(str) : str \in {"", "a"}}
        \cup {TypedGrip(type) : type \in {"null", "undefined", "Infinity", "-Infinity", "NaN", "-0"}}
        \cup {LongStringGrip("long"), SymbolGrip("sym")}
UnknownGrips == {TypedGrip(type) : type \in {"mystery", "Object"}}
FromGripInputs ==
    [varname : {"v", "w"},
     grip : PrimitiveGrips \cup UnknownGrips \cup {ObjectGrip(n) : n \in GripNames},
     threadLifetime : BOOLEAN]
NoInput == [varname |-> "", grip |-> Undefined, threadLifetime |-> FALSE]
NoOutput == [called |-> FALSE]

\* no fromGrip call is at hand
IdleFromGrip ==
    /\ fgInput = NoInput
    /\ fgOutput = NoOutput

\* VariableAdapter.fromGrip(varname, grip, threadLifetime, threadAdapter) is
\* called with the arguments at hand
FromGripCall ==
    /\ fgOutput = NoOutput
    /\ LET r == fromGrip(Heap, fgInput.varname, fgInput.grip, fgInput.threadLifetime)
       IN /\ Len(r.h.adapters) <= MaxAdapters
          /\ SetHeap(r.h)
          /\ fgOutput' = [called |-> TRUE, var |-> r.var]
    /\ UNCHANGED fgInput

\* the caller takes the variable and comes up with the arguments of its next call
FromGripNext(input) ==
    /\ fgOutput # NoOutput
    /\ fgInput' = input
    /\ fgOutput' = NoOutput
    /\ UNCHANGED gripVars

Init == InitConnection /\ InitThread /\ InitInit /\ InitGetOrCreate /\ IdleFromGrip

\* a new thread, and the arguments of a first fromGrip call
InitFromGrip ==
    /\ InitConnection /\ InitThread /\ InitInit /\ InitGetOrCreate
    /\ fgInput \in FromGripInputs
    /\ fgOutput = NoOutput

Next ==
    \/ \E st \in RemoteStacks : OnPaused(st) /\ UNCHANGED otherThanThread
    \/ StartTask /\ UNCHANGED otherThanThread
    \/ fetchStackFrames /\ UNCHANGED otherThanThread
    \/ \E ok \in BOOLEAN : fetchAllStackFramesReply(ok) /\ UNCHANGED otherThanThread
    \/ \E provider \in VariablesProviders : fetchVariables(provider) /\ UNCHANGED otherThanThread
    \/ \E ok \in BOOLEAN, grips \in SeqsUpTo(VariableGrips, MaxVariables) :
          fetchVariablesReply(ok, grips) /\ UNCHANGED otherThanThread
    \/ evaluate /\ UNCHANGED otherThanThread
    \/ \E ok \in BOOLEAN, grip \in EvalGrips : evaluateReply(ok, grip) /\ UNCHANGED otherThanThread
    \/ \E ok \in BOOLEAN, grip \in EvalGrips : consoleEvaluate(ok, grip) /\ UNCHANGED otherThanThread
    \/ \E i \in 1..(MaxFrames + MaxVariables), ok \in BOOLEAN : extendLifetimeReply(i, ok) /\ UNCHANGED otherThanThread
    \/ resume /\ UNCHANGED otherThanThread
    \/ disposePauseLifetimeAdapters /\ UNCHANGED otherThanThread
    \/ \E ok \in BOOLEAN : releaseManyReply(ok) /\ UNCHANGED otherThanThread
    \/ detach /\ UNCHANGED otherThanThread
    \/ \E ok \in BOOLEAN : detachReply(ok) /\ UNCHANGED otherThanThread

Spec == Init /\ [][Next]_vars

\* the coordinator starts every waiting task and the remote answers every
\* request of the running task; the host is free to do nothing
TaskProgress ==
    /\ WF_vars(StartTask /\ UNCHANGED otherThanThread)
    /\ WF_vars(\E ok \in BOOLEAN : fetchAllStackFramesReply(ok) /\ UNCHANGED otherThanThread)
    /\ WF_vars(\E i \in 1..(MaxFrames + MaxVariables), ok \in BOOLEAN :
                  extendLifetimeReply(i, ok) /\ UNCHANGED otherThanThread)

SpecProgress == Init /\ [][Next]_vars /\ TaskProgress

NextConnection ==
    \/ \E p \in Proxies : register(p) /\ UNCHANGED otherThanConnection
    \/ \E p \in Proxies : unregister(p) /\ UNCHANGED otherThanConnection
    \/ \E n \in ActorNames : OnTransportMessage(n) /\ UNCHANGED otherThanConnection


SpecConnection == Init /\ [][NextConnection]_vars

NextGetOrCreate ==
    \/ \E n \in ActorNames : RegisterDirectly(n) /\ UNCHANGED otherThanRegistry
    \/ \E p \in Proxies : UnregisterBuilt(p) /\ UNCHANGED otherThanRegistry
    \/ \E n \in ActorNames, registers \in BOOLEAN :
          getOrCreate(n, registers) /\ UNCHANGED <<threadVars, initVars, fgVars>>

SpecGetOrCreate == Init /\ [][NextGetOrCreate]_vars

NextInit ==
    \/ \E t \in ThreadIds, reload \in BOOLEAN : init(t, reload) /\ UNCHANGED otherThanInit
    \/ \E t \in ThreadIds, ok \in BOOLEAN : requestInterruptReply(t, ok) /\ UNCHANGED otherThanInit
    \/ \E t \in ThreadIds, ok \in BOOLEAN : attachReply(t, ok) /\ UNCHANGED otherThanInit
    \/ \E t \in ThreadIds, ok \in BOOLEAN : fetchSourcesReply(t, ok) /\ UNCHANGED otherThanInit
    \/ \E t \in ThreadIds, ok \in BOOLEAN : resumeReply(t, ok) /\ UNCHANGED otherThanInit
    \/ \E t \in ThreadIds, ok \in BOOLEAN : reloadReply(t, ok) /\ UNCHANGED otherThanInit

SpecInit == Init /\ [][NextInit]_vars

NextFromGrip ==
    \/ FromGripCall /\ UNCHANGED otherThanGrips
    \/ \E input \in FromGripInputs : FromGripNext(input) /\ UNCHANGED otherThanGrips

SpecFromGrip == InitFromGrip /\ [][NextFromGrip]_vars

(* ------------------------------ claims --------------------------------- *)

\* C1: the registry never holds two proxies under one actor name, and a
\* message whose `from` is a name that was unregistered and not registered
\* again is logged as unknown actor and reaches no proxy's receiveResponse.
C1_RegistryUniqueAndRemovedUnroutable ==
    [][ /\ \A e1, e2 \in actors' : e1[1] = e2[1] => e1 = e2
        /\ \A n \in removedNames :
              (Len(arrived') = Len(arrived) + 1 /\ arrived'[Len(arrived')] = n)
                 => /\ errorLog' = Append(errorLog, Len(arrived'))
                    /\ received' = received ]_vars

C1_Witness ==
    /\ \E n \in ActorNames :
          /\ n \in removedNames
          /\ Len(arrived) > 0 /\ arrived[Len(arrived)] = n
          /\ Len(errorLog) > 0 /\ errorLog[Len(errorLog)] = Len(arrived)
    /\ actors # {}

\* how often arrival number i occurs in sequence s
Occurrences(s, i) == Cardinality({k \in 1..Len(s) : s[k] = i})
StrictlyIncreasing(s) == \A j, k \in 1..Len(s) : j < k => s[j] < s[k]

\* C2: every delivered message is handled exactly once and in arrival order:
\* passed to receiveResponse of the one proxy registered under its `from`
\* at arrival, or else logged as an error; never to two proxies, never
\* reordered, never dropped without a report.
C2_EachMessageHandledOnceInOrder ==
    /\ [](/\ \A i \in 1..Len(arrived) :
               /\ Cardinality({p \in Proxies : Occurrences(received[p], i) > 0})
                    + Occurrences(errorLog, i) = 1
               /\ \A p \in Proxies : Occurrences(received[p], i) <= 1
               /\ \A p \in Proxies : Occurrences(received[p], i) > 0 => ProxyName(p) = arrived[i]
          /\ \A p \in Proxies : StrictlyIncreasing(received[p])
          /\ StrictlyIncreasing(errorLog)
          /\ \A p \in Proxies : SeqToSet(received[p]) \subseteq 1..Len(arrived)
          /\ SeqToSet(errorLog) \subseteq 1..Len(arrived))
    /\ [][ /\ \A p \in Proxies : received'[p] # received[p]
                => <<ProxyName(p), p>> \in actors /\ Len(arrived') = Len(arrived) + 1
           /\ errorLog' # errorLog
                => ~MapHas(actors, arrived'[Len(arrived')]) ]_vars

\* one message dispatched to the second proxy built for a name, another
\* logged, while a proxy of another name is registered
C2_Witness ==
    /\ Len(arrived) >= 2
    /\ Len(errorLog) > 0
    /\ \E p \in Proxies : p[2] > 1 /\ Len(received[p]) > 0
    /\ \E e \in actors : e[1] # arrived[Len(arrived)]

\* the live adapters and the release requests, as the claims speak of them
AdapterIds == 1..Len(adapters)
InIndex(id) == <<adapters[id].actor, id>> \in objectGripAdaptersByActorName
Releases == SeqToSet(releaseRequests)
\* release requests sent after adapter id was created that name its actor
ReleasesNaming(id) ==
    {r \in Releases : r.adaptersBefore >= id /\ adapters[id].actor \in SeqToSet(r.names)}
\* the step is a run of the resume cleanup
CleanupStep == threadState = "paused" /\ threadState' # "paused"

\* C3: with no resume that releases the name in between, every call for one
\* actor name returns the same adapter, whatever lifetime is asked for, and
\* the index holds exactly one entry for that name.
C3_SameNameSameAdapter ==
    \A n \in GripNames :
        /\ Cardinality({c \in calls : c[1] = n}) <= 1
        /\ \A c \in calls : c[1] = n =>
              /\ {e \in objectGripAdaptersByActorName : e[1] = n} = {<<n, c[2]>>}
              /\ adapters[c[2]].actor = n

C3_Witness ==
    \E id \in AdapterIds :
        /\ ~adapters[id].threadLifetime /\ adapters[id].askedOther
        /\ <<adapters[id].actor, id>> \in calls
        /\ InIndex(id)

\* C4: a grip first requested with threadLifetime=false and requested again
\* with threadLifetime=true in the same pause episode is upgraded: the next
\* resume does not dispose it, does not remove it from the index and does
\* not name it in the release request.
C4_UpgradedGripSurvivesResume ==
    \A id \in AdapterIds :
        (~adapters[id].threadLifetime /\ adapters[id].askedOther) =>
            /\ ~adapters[id].disposed
            /\ InIndex(id)
            /\ ReleasesNaming(id) = {}

\* C5: a grip first requested with threadLifetime=true is never downgraded:
\* later requests with threadLifetime=false leave it out of the release set,
\* and no resume disposes it, removes it from the index or names it in a
\* release request.
C5_ThreadLifetimeNeverDowngraded ==
    \A id \in AdapterIds :
        adapters[id].threadLifetime =>
            /\ id \notin SeqToSet(pauseLifetimeObjects)
            /\ ~adapters[id].disposed
            /\ InIndex(id)
            /\ ReleasesNaming(id) = {}

C5_Witness ==
    \E id \in AdapterIds :
        /\ adapters[id].threadLifetime /\ adapters[id].askedOther
        /\ \E r \in Releases : r.adaptersBefore >= id /\ r.episode = episode
        /\ threadState = "running"
        /\ InIndex(id)

\* C6: after every run of the resume cleanup the release set is empty, no
\* grip that was in it is left in the index, each of them is disposed, and
\* every thread-lifetime grip is still in the index, undisposed and unchanged.
C6_CleanupReleasesPauseLifetimeOnly ==
    [][ CleanupStep =>
          /\ pauseLifetimeObjects' = <<>>
          /\ \A id \in SeqToSet(pauseLifetimeObjects) :
                /\ adapters'[id].disposed
                /\ <<adapters[id].actor, id>> \notin objectGripAdaptersByActorName'
          /\ \A e \in objectGripAdaptersByActorName' : adapters'[e[2]].threadLifetime
          /\ \A id \in AdapterIds :
                (adapters[id].threadLifetime /\ InIndex(id)) =>
                    /\ <<adapters[id].actor, id>> \in objectGripAdaptersByActorName'
                    /\ adapters'[id] = adapters[id]
                    /\ ~adapters'[id].disposed ]_vars

C6_Witness ==
    /\ threadState # "paused"
    /\ \E r \in Releases, id1, id2 \in AdapterIds :
          /\ id1 <= r.adaptersBefore /\ id2 <= r.adaptersBefore
          /\ adapters[id1].disposed
          /\ adapters[id2].threadLifetime /\ InIndex(id2)

\* C7: a cleanup whose release set is not empty sends exactly one releaseMany
\* request, naming exactly the actors of the release set; a cleanup with an
\* empty set sends none, and no other step sends one; a later lookup of a
\* released name returns an adapter created after the cleanup, not the
\* disposed one.
C7_OneBulkReleaseThenFreshAdapters ==
    /\ [][ IF CleanupStep /\ pauseLifetimeObjects # <<>>
             THEN /\ Len(releaseRequests') = Len(releaseRequests) + 1
                  /\ SubSeq(releaseRequests', 1, Len(releaseRequests)) = releaseRequests
                  /\ releaseRequests'[Len(releaseRequests')].names =
                        [i \in 1..Len(pauseLifetimeObjects) |->
                            adapters[pauseLifetimeObjects[i]].actor]
             ELSE releaseRequests' = releaseRequests ]_vars
    /\ [](\A r \in Releases, c \in calls :
             c[1] \in SeqToSet(r.names) =>
                 /\ c[2] > r.adaptersBefore
                 /\ ~adapters[c[2]].disposed
                 /\ \E old \in 1..r.adaptersBefore :
                       adapters[old].actor = c[1] /\ adapters[old].disposed)

C7_Witness ==
    \E r \in Releases, c \in calls : c[1] \in SeqToSet(r.names) /\ InIndex(c[2])

\* C8: a rejected extendLifetime or releaseMany request is swallowed: fetching
\* stack frames, fetching variables, evaluating in a frame and the resume
\* cleanup still complete successfully when such a request is rejected.
C8_BestEffortFailuresSwallowed ==
    (lastDone.op \in {"frames", "variables", "evaluate", "cleanup"} /\ lastDone.bestEffortFailed)
        => lastDone.status = "resolved"

\* C9: the cleanup finishes its local effects before the release request is
\* issued: whenever a releaseMany request is in flight or completed, none of
\* its names maps to an undisposed adapter created before that cleanup, and
\* no cached frame or scope of the ended pause episode is left.
C9_LocalCleanupBeforeRelease ==
    /\ \A r \in Releases :
          /\ \A n \in SeqToSet(r.names) :
                /\ MapHas(objectGripAdaptersByActorName, n)
                      => MapGet(objectGripAdaptersByActorName, n) > r.adaptersBefore
                /\ \A id \in 1..r.adaptersBefore :
                      (adapters[id].actor = n /\ ~adapters[id].threadLifetime)
                          => adapters[id].disposed
          /\ \A i \in 1..Len(frames) : frames[i].episode > r.episode
          /\ \A i \in 1..Len(scopes) : scopes[i].episode > r.episode
    /\ threadState = "resuming" =>
          frames = <<>> /\ scopes = <<>> /\ pauseLifetimeObjects = <<>>

\* a release request in flight, after a pause whose frames had been fetched
C9_Witness ==
    /\ threadState = "resuming"
    /\ pausedEmitted
    /\ \E r \in Releases :
          /\ r.episode = episode
          /\ \E id \in 1..r.adaptersBefore :
                adapters[id].disposed /\ adapters[id].actor \in SeqToSet(r.names)

\* C10 (as stated): after detach() completes, a release has been requested
\* for every thread-lifetime grip and none of them is left in the index.
C10_DetachReleasesThreadLifetime ==
    detachState = "detached" =>
        \A id \in AdapterIds :
            adapters[id].threadLifetime => (~InIndex(id) /\ ReleasesNaming(id) # {})

\* C10 (amended): detach() only forwards the detach request: it sends no
\* release request and leaves the index, the adapters and the release set as
\* they are, so after it completes every thread-lifetime grip is still in
\* the index, undisposed; release requests only ever name the grips of the
\* pause-lifetime release set.
C10_DetachLeavesGripsAlone ==
    /\ [][ detachState' # detachState =>
              /\ objectGripAdaptersByActorName' = objectGripAdaptersByActorName
              /\ adapters' = adapters
              /\ pauseLifetimeObjects' = pauseLifetimeObjects
              /\ releaseRequests' = releaseRequests ]_vars
    /\ [][ releaseRequests' # releaseRequests =>
              \A n \in SeqToSet(releaseRequests'[Len(releaseRequests')].names) :
                  \E id \in SeqToSet(pauseLifetimeObjects) :
                      adapters[id].actor = n /\ ~adapters[id].threadLifetime ]_vars
    /\ [](detachState = "detached" =>
              \A id \in AdapterIds :
                  adapters[id].threadLifetime => (InIndex(id) /\ ~adapters[id].disposed))

C10_Witness ==
    /\ detachState = "detached"
    /\ \E id \in AdapterIds : adapters[id].threadLifetime /\ InIndex(id)
    /\ Releases # {}

\* how often call c occurs in the log of thread t's init
InitCalls(t, c) == Cardinality({k \in 1..Len(initLog[t]) : initLog[t][k] = c})
\* the position of the first call c in the log of thread t's init, 0 if none
InitCallAt(t, c) ==
    IF InitCalls(t, c) = 0 THEN 0
    ELSE CHOOSE k \in 1..Len(initLog[t]) :
            initLog[t][k] = c /\ \A j \in 1..(k - 1) : initLog[t][j] # c

\* C11: init follows requestInterrupt -> attach -> notify: once the attach of
\* a granted interrupt is answered, exactly one of notifyInterrupted and
\* notifyInterruptFailed has been called, never both, and the interrupt is in
\* flight exactly while attach is awaited; a rejected attach rejects init,
\* and then neither fetchSources nor resume is ever issued.
C11_InitHandshake ==
    \A t \in ThreadIds :
        /\ InitCalls(t, "requestInterrupt") <= 1 /\ InitCalls(t, "attach") <= 1
        /\ InitCalls(t, "attach") = 1 =>
              /\ InitCallAt(t, "requestInterrupt") < InitCallAt(t, "attach")
              /\ \A c \in {"notifyInterrupted", "notifyInterruptFailed"} :
                    InitCalls(t, c) = 1 => InitCallAt(t, "attach") < InitCallAt(t, c)
        /\ InitCalls(t, "notifyInterrupted") + InitCalls(t, "notifyInterruptFailed")
              = (IF InitCalls(t, "attach") = 1 /\ initPc[t] # "attach" THEN 1 ELSE 0)
        /\ (t \in interruptInFlight) <=> (initPc[t] = "attach")
        /\ InitCalls(t, "notifyInterruptFailed") = 1 =>
              /\ initPc[t] = "done" /\ initResult[t] = "rejected"
              /\ InitCalls(t, "fetchSources") = 0 /\ InitCalls(t, "resume") = 0
        /\ (InitCalls(t, "fetchSources") > 0 \/ InitCalls(t, "resume") > 0) =>
              InitCalls(t, "notifyInterrupted") = 1
        /\ initPc[t] = "done" => t \notin interruptInFlight

\* one init whose attach was rejected and has settled, another that went on
\* to resume after its attach succeeded
C11_Witness ==
    \E t, u \in ThreadIds :
        /\ InitCalls(t, "notifyInterruptFailed") = 1 /\ initResult[t] = "rejected"
        /\ InitCalls(u, "notifyInterrupted") = 1 /\ InitCalls(u, "resume") = 1

\* the step is a getOrCreate call (one that repeats the latest call with the
\* same outcome leaves no trace)
GetOrCreateStep == gocLast' # gocLast
\* a getOrCreate call returns the registered proxy without running the
\* factory, and runs the factory exactly once when none is registered
LookupOrOneFactoryRun ==
    GetOrCreateStep =>
        LET n == gocLast'.name
        IN IF MapHas(actors, n)
             THEN /\ gocLast'.ret = MapGet(actors, n)
                  /\ ~gocLast'.invoked
                  /\ built' = built
             ELSE /\ gocLast'.invoked
                  /\ built' = [built EXCEPT ![n] = @ + 1]
                  /\ gocLast'.ret = <<n, built'[n]>>
\* the calls with registering factories since the last unregister of the name
\* ran a factory at most once and all returned one proxy
OneProxyPerName(n) == Cardinality(gocRets[n]) <= 1 /\ gocRuns[n] <= 1

\* C12 (as stated): getOrCreate returns the registered proxy without running
\* the factory, runs it exactly once otherwise, and with registering
\* factories the calls for one name with no unregister in between run a
\* factory at most once and all return the same proxy.
C12_GetOrCreateSameProxy ==
    /\ [][LookupOrOneFactoryRun]_vars
    /\ [](\A n \in ActorNames : OneProxyPerName(n))

\* C12 (amended): as above, for the calls between which the name is neither
\* unregistered nor registered for another proxy by a caller other than
\* getOrCreate.
C12_GetOrCreateSameProxyUnlessReplaced ==
    /\ [][LookupOrOneFactoryRun]_vars
    /\ [](\A n \in ActorNames : ~gocForeign[n] => OneProxyPerName(n))

\* a second call for a name returned the proxy the first call's factory built
C12_Witness ==
    \E n \in ActorNames :
        /\ gocLast.name = n /\ ~gocLast.invoked
        /\ gocRuns[n] = 1 /\ gocRets[n] = {gocLast.ret}
        /\ ~gocForeign[n]

\* the step is a fromGrip call
FromGripStep == fgOutput = NoOutput /\ fgOutput' # NoOutput
\* the display value the claim gives for a grip that is no object grip
DisplayValue(grip) ==
    IF grip = BooleanGrip(TRUE) THEN "true"
    ELSE IF grip = BooleanGrip(FALSE) THEN "false"
    ELSE IF grip = NumberGrip(2) THEN "2"
    ELSE IF grip = NumberGrip(0) THEN "0"
    ELSE IF grip = NumberGrip(-1) THEN "-1"
    ELSE IF grip = StringGrip("a") THEN "\"a\""
    ELSE IF grip = StringGrip("") THEN "\"\""
    ELSE IF grip = LongStringGrip("long") THEN "long"
    ELSE IF grip = SymbolGrip("sym") THEN "sym"
    ELSE grip.type

\* C13: fromGrip always returns a variable named as asked; for a boolean,
\* number or string grip, a typed primitive and a grip of an unrecognised
\* type the variable shows the display value (the type name for an
\* unrecognised type, "2" for the number 2), carries no object grip adapter,
\* and the thread's grip bookkeeping is unchanged; only a grip of type
\* 'object' gets an adapter, the one indexed under its actor name.
C13_FromGripTotalAndGripOnlyForObjects ==
    [][ FromGripStep =>
          /\ fgOutput'.called
          /\ fgOutput'.var.varname = fgInput.varname
          /\ IF fgInput.grip \in PrimitiveGrips \cup UnknownGrips
               THEN /\ fgOutput'.var.value = DisplayValue(fgInput.grip)
                    /\ fgOutput'.var.objectGripAdapter = NoAdapter
                    /\ <<adapters', objectGripAdaptersByActorName', pauseLifetimeObjects'>>
                          = <<adapters, objectGripAdaptersByActorName, pauseLifetimeObjects>>
               ELSE /\ fgInput.grip.type = "object"
                    /\ fgOutput'.var.objectGripAdapter # NoAdapter
                    /\ <<fgInput.grip.actor, fgOutput'.var.objectGripAdapter>>
                          \in objectGripAdaptersByActorName'
                    /\ fgOutput'.var.value = fgInput.grip.class ]_vars

\* the number 2 was converted after an object grip had been indexed
C13_Witness ==
    /\ fgOutput = [called |-> TRUE, var |-> VariableAdapter("v", "2", NoAdapter)]
    /\ objectGripAdaptersByActorName # {}

\* the step is the reply to an evaluation in a frame
EvaluateReplyStep ==
    /\ running # NoTask /\ running.kind = "evaluate" /\ running.pc = "action"
    /\ running' # running
\* the step is a console evaluation that returned an object grip: nothing but
\* a console evaluation touches the adapters and leaves the thread's state
\* and the running task alone
ConsoleEvaluateStep ==
    /\ adapters' # adapters
    /\ running' = running /\ threadState' = threadState
\* the adapters a step created or was given by getOrCreateObjectGripAdapter
Touched ==
    {id \in 1..Len(adapters') : id > Len(adapters) \/ adapters'[id] # adapters[id]}

\* C14: an evaluation in a frame registers a new object result as a
\* pause-lifetime grip, in the index and the release set, and has requested
\* extendLifetime for it before the result is returned; a console evaluation
\* leaves its object result a thread-lifetime grip outside the release set,
\* so that no later resume releases it.
C14_EvaluateLifetimes ==
    /\ [][ (EvaluateReplyStep /\ Len(adapters') > Len(adapters)) =>
              LET id == Len(adapters')
              IN /\ ~adapters'[id].threadLifetime
                 /\ id \in SeqToSet(pauseLifetimeObjects')
                 /\ <<adapters'[id].actor, id>> \in objectGripAdaptersByActorName'
                 /\ running' # NoTask /\ running'.pc = "post"
                 /\ running'.pending = <<id>> ]_vars
    /\ [][ ConsoleEvaluateStep =>
              \A id \in Touched :
                 /\ adapters'[id].threadLifetime
                 /\ id \notin SeqToSet(pauseLifetimeObjects')
                 /\ <<adapters'[id].actor, id>> \in objectGripAdaptersByActorName' ]_vars

\* the step settles the frame fetch of the onPaused handler with frames cached
HandlerFetchedStep ==
    /\ running # NoTask /\ running.caller = "handler" /\ running' = NoTask
    /\ lastDone'.status = "resolved" /\ frames' # <<>>
\* frame fetches waiting or under way
FrameFetches(q, r) ==
    Cardinality({i \in 1..Len(q) : q[i].kind = "frames"})
        + (IF r # NoTask /\ r.kind = "frames" THEN 1 ELSE 0)

C16_PausedNotificationAnswered ==
    (threadState = "paused" /\ ~pausedEmitted /\ ~resumeRequested)
        ~> (pausedEmitted \/ resumeRequested)

\* C17: within one pause the frame cache holds each remote frame at most
\* once, whatever the interleaving of the handler's fetch with host calls of
\* fetchStackFrames, so the total count fetchStackFrames returns is the
\* number of frames the remote reported.
C17_EachFrameCachedOnce ==
    /\ \A i, j \in 1..Len(frames) : frames[i].depth = frames[j].depth => i = j
    /\ Len(frames) <= Len(remoteStack)

\* the actor names of the pause-lifetime grips in the index
PauseLifetimeNames ==
    {adapters[id].actor : id \in {i \in AdapterIds : InIndex(i) /\ ~adapters[i].threadLifetime}}
\* the adapters constructed after request r was sent
CreatedAfter(r) == {id \in AdapterIds : id > r.adaptersBefore}

C19_ReleaseSetWithinIndex ==
    /\ [](/\ \A i, j \in 1..Len(pauseLifetimeObjects) :
                pauseLifetimeObjects[i] = pauseLifetimeObjects[j] => i = j
          /\ \A id \in SeqToSet(pauseLifetimeObjects) :
                /\ id \in AdapterIds
                /\ MapHas(objectGripAdaptersByActorName, adapters[id].actor)
                /\ MapGet(objectGripAdaptersByActorName, adapters[id].actor) = id)
    /\ [][ (\E e \in objectGripAdaptersByActorName : e \notin objectGripAdaptersByActorName')
              => CleanupStep ]_vars

\* two adapters are in the release set, one of them returned again by a later
\* lookup that asked for the other lifetime
C19_Witness ==
    /\ Len(pauseLifetimeObjects) >= 2
    /\ \E id \in SeqToSet(pauseLifetimeObjects) : adapters[id].askedOther

\* C20: a proxy leaves the registry only when unregister is called with that
\* very proxy or when another proxy is registered under its name; unregister
\* of a proxy that was replaced leaves its replacement registered, and
\* messages from the name still reach the replacement.
C20_UnregisterRemovesOnlyItsArgument ==
    [][ \A e \in actors :
          e \notin actors' =>
              \/ ~unregisteredOther'
              \/ \E e2 \in actors' : e2[1] = e[1] ]_vars

====
